---- MODULE Spec2Model ----
(***************************************************************************)
(* A model of crussh: an SSH chat server with a tree of channels, one      *)
(* broadcast bus per channel, one delivery task per session and a byte     *)
(* level line editor with a ':' command dispatcher.                        *)
(*                                                                         *)
(* Strings are sequences of byte values (0..255), as the code handles      *)
(* them; a session is identified by its account name.                      *)
(***************************************************************************)
EXTENDS Integers, Sequences, FiniteSets, TLC

(***************************************************************************)
(* Bounds of the model (not program constants).                            *)
(***************************************************************************)
\* Msg and Reply events the talking user of the chat publishes
ChatMsgs == 3
\* Msg and Reply events the user who switches channels publishes
SwitchMsgs == 2
\* Msg and Reply events the user who types commands publishes
CmdMsgs == 1
\* Msg and Reply events the user who removes her own channel publishes
OrphanMsgs == 1
\* Msg and Reply events the user published while the others wait
WakeMsgs == 1
\* Msg and Reply events published in the channel the listener moved to
FollowMsgs == 1
\* Msg and Reply events published while another session closes
QuitMsgs == 3
\* Msg and Reply events the user who edits her line publishes
EditMsgs == 1
\* bytes in the line of the user who edits her line
EditLen == 2
\* channel nodes ever allocated (the root included)
MaxNodes == 3
\* Subscriptions one session makes: the first one and its channel switches
MaxSubs == 3

(***************************************************************************)
(* Program constants.                                                      *)
(***************************************************************************)
BUFFER_SIZE == 4
\* Vec::with_capacity(256) of the edit buffer
BUFFER_HINT == 256
NONE == 0
READ == 1
WRITE == 2
MANAGE == 4

\* bitwise OR and AND of two PermLevel bit sets (three bits)
BitOr(a, b) ==
    LET bit(k) == IF (a \div k) % 2 = 1 \/ (b \div k) % 2 = 1 THEN k ELSE 0
    IN  bit(1) + bit(2) + bit(4)

BitAnd(a, b) ==
    LET bit(k) == IF (a \div k) % 2 = 1 /\ (b \div k) % 2 = 1 THEN k ELSE 0
    IN  bit(1) + bit(2) + bit(4)

\* PermLevel::contains
Contains(level, flag) == BitAnd(level, flag) = flag

(***************************************************************************)
(* Byte strings.                                                           *)
(***************************************************************************)
Last(q) == q[Len(q)]
Front(q) == SubSeq(q, 1, Len(q) - 1)

\* the names of the two accounts that log in: "a" (alice) and "b" (bob)
alice == <<97>>
bob == <<98>>
Sessions == {alice, bob}

\* "m": the role name used in role grants and Role rules
RoleM == <<109>>

S_help == <<104, 101, 108, 112>>
S_h == <<104>>
S_quit == <<113, 117, 105, 116>>
S_q == <<113>>
S_clear == <<99, 108, 101, 97, 114>>
S_mkch == <<109, 107, 99, 104>>
S_mkchp == <<109, 107, 99, 104, 112>>
S_make_priv_channel ==
    <<109, 97, 107, 101, 45, 112, 114, 105, 118, 45, 99, 104, 97, 110, 110, 101, 108>>
S_rmch == <<114, 109, 99, 104>>
S_remove_channel ==
    <<114, 101, 109, 111, 118, 101, 45, 99, 104, 97, 110, 110, 101, 108>>
S_ch == <<99, 104>>
S_channel == <<99, 104, 97, 110, 110, 101, 108>>
S_pwch == <<112, 119, 99, 104>>
S_users == <<117, 115, 101, 114, 115>>
S_ls == <<108, 115>>
S_user == <<117, 115, 101, 114>>
S_dotdot == <<46, 46>>
S_dot == <<46>>

\* (b as char).is_whitespace() for a byte b: the White_Space code points
\* below U+0100
is_whitespace(b) == b \in {9, 10, 11, 12, 13, 32, 133, 160}

\* slice::iter().position / rposition of the first / last byte that is not
\* white space (1-based; 0 when there is none)
position(data) ==
    LET I == {i \in 1..Len(data) : ~is_whitespace(data[i])}
    IN  IF I = {} THEN 0 ELSE CHOOSE i \in I : \A j \in I : i <= j

rposition(data) ==
    LET I == {i \in 1..Len(data) : ~is_whitespace(data[i])}
    IN  IF I = {} THEN 0 ELSE CHOOSE i \in I : \A j \in I : i >= j

\* trim: data.get_unchecked(start .. end) with start = position or len and
\* end = rposition + 1 or 0 (0-based, end exclusive).  With start <= end the
\* result is that slice.  With start > end (a non-empty buffer of white
\* space only) the unchecked range is undefined behaviour: the build either
\* aborts on the range precondition or yields a slice that starts one past
\* the buffer, whose first byte is whatever lies there.  The outcomes are
\*   [kind |-> "slice", val |-> s]   the trimmed bytes
\*   [kind |-> "abort"]              the handler dies
\*   [kind |-> "wild", colon |-> c]  a wild slice; c: does it start with ':'
trim(data) ==
    LET start == IF position(data) = 0 THEN Len(data) ELSE position(data) - 1
        end   == rposition(data)
    IN  IF start <= end
        THEN {[kind |-> "slice", val |-> SubSeq(data, start + 1, end), colon |-> FALSE]}
        ELSE {[kind |-> "abort", val |-> <<>>, colon |-> FALSE],
              [kind |-> "wild", val |-> <<>>, colon |-> FALSE],
              [kind |-> "wild", val |-> <<>>, colon |-> TRUE]}

\* std::str::from_utf8(..).is_ok(): well-formed UTF-8; a run of ASCII bytes
\* is passed over at once
RECURSIVE from_utf8_ok(_)
from_utf8_ok(d) ==
    LET cont(i) == i <= Len(d) /\ d[i] >= 128 /\ d[i] <= 191
    IN  IF d = <<>> THEN TRUE
        ELSE IF d[1] < 128
            THEN LET J == {i \in 1..Len(d) : d[i] >= 128}
                 IN  J = {} \/ from_utf8_ok(SubSeq(d,
                        CHOOSE i \in J : \A j \in J : i <= j, Len(d)))
        ELSE IF d[1] >= 194 /\ d[1] <= 223
            THEN cont(2) /\ from_utf8_ok(SubSeq(d, 3, Len(d)))
        ELSE IF d[1] >= 224 /\ d[1] <= 239
            THEN /\ cont(2) /\ cont(3)
                 /\ (d[1] = 224 => d[2] >= 160)
                 /\ (d[1] = 237 => d[2] <= 159)
                 /\ from_utf8_ok(SubSeq(d, 4, Len(d)))
        ELSE IF d[1] >= 240 /\ d[1] <= 244
            THEN /\ cont(2) /\ cont(3) /\ cont(4)
                 /\ (d[1] = 240 => d[2] >= 144)
                 /\ (d[1] = 244 => d[2] <= 143)
                 /\ from_utf8_ok(SubSeq(d, 5, Len(d)))
        ELSE FALSE

\* str::split(sep): the pieces between the separators, empty pieces kept
RECURSIVE split(_, _)
split(d, sep) ==
    LET I == {i \in 1..Len(d) : d[i] = sep}
    IN  IF I = {} THEN <<d>>
        ELSE LET i == CHOOSE k \in I : \A j \in I : k <= j
             IN  <<SubSeq(d, 1, i - 1)>> \o split(SubSeq(d, i + 1, Len(d)), sep)

(***************************************************************************)
(* Paths.  A PathBuf is held as the list of its components, which is all   *)
(* that join, parent, file_name, strip_prefix and iter look at; every path *)
(* of the program is absolute, so the root component is left implicit.     *)
(***************************************************************************)
\* Path::components of the part after the root: empty and "." segments are
\* skipped, ".." is kept as a component
components(arg) == SelectSeq(split(arg, 47), LAMBDA c : c # <<>> /\ c # S_dot)

\* Path::join: an absolute argument replaces the base
join(base, arg) ==
    IF arg # <<>> /\ arg[1] = 47 THEN components(arg) ELSE base \o components(arg)

\* Path::parent and Path::file_name as Options (a set with at most one
\* element)
parent(p) == IF p = <<>> THEN {} ELSE {Front(p)}
file_name(p) == IF p = <<>> \/ Last(p) = S_dotdot THEN {} ELSE {Last(p)}

(***************************************************************************)
(* Permissions.                                                            *)
(***************************************************************************)
\* PermEntry = (RestrictionKind, PermLevel)
Entry(kind, who, level) == [kind |-> kind, who |-> who, level |-> level]
User(u, level) == Entry("User", u, level)
Role(r, level) == Entry("Role", r, level)
All(level) == Entry("All", <<>>, level)

\* the derived Ord of RestrictionKind: User(_) < Role(_) < All, and the
\* names compared as strings within one variant
RECURSIVE str_le(_, _)
str_le(x, y) ==
    IF x = <<>> THEN TRUE
    ELSE IF y = <<>> THEN FALSE
    ELSE IF x[1] # y[1] THEN x[1] < y[1]
    ELSE str_le(Tail(x), Tail(y))

rank(kind) == CASE kind = "User" -> 0 [] kind = "Role" -> 1 [] kind = "All" -> 2

kind_le(e, f) ==
    \/ rank(e.kind) < rank(f.kind)
    \/ rank(e.kind) = rank(f.kind) /\ str_le(e.who, f.who)

is_sorted(perms) ==
    \A i, j \in 1..Len(perms) : i < j => kind_le(perms[i], perms[j])

\* perms_sorted: the deserialised list after sort_unstable_by on the
\* restriction; entries with equal restrictions may come out in any order,
\* so the result is one of the sorted rearrangements
perms_sorted(raw) ==
    LET n == Len(raw)
        P == {f \in [1..n -> 1..n] : \A i, j \in 1..n : i # j => f[i] # f[j]}
    IN  {q \in {[i \in 1..n |-> raw[f[i]]] : f \in P} : is_sorted(q)}

\* UserConfig: a password digest and the role grants (name, level)
Config(hash, roles) == [hash |-> hash, roles |-> roles]
Grant(n, level) == [name |-> n, level |-> level]

\* UserConfig::get_role as an Option
get_role(config, n) ==
    LET I == {i \in 1..Len(config.roles) : config.roles[i].name = n}
    IN  IF I = {} THEN {}
        ELSE {config.roles[CHOOSE i \in I : \A j \in I : i <= j].level}

\* UserConfig::get_global_perms: the OR of all granted levels
RECURSIVE fold_or(_)
fold_or(roles) ==
    IF roles = <<>> THEN NONE ELSE BitOr(fold_or(Front(roles)), Last(roles).level)

get_global_perms(config) == fold_or(config.roles)

\* the closure of the rmch scan: does a perms entry apply to the caller
matches(e, n, config) ==
    CASE e.kind = "User" -> e.who = n
      [] e.kind = "Role" -> get_role(config, e.who) # {}
      [] e.kind = "All"  -> TRUE

\* perms.iter().find(matches): the first entry that applies, as an Option
find(perms, n, config) ==
    LET I == {i \in 1..Len(perms) : matches(perms[i], n, config)}
    IN  IF I = {} THEN {} ELSE {perms[CHOOSE i \in I : \A j \in I : i <= j]}

(***************************************************************************)
(* Events.                                                                 *)
(***************************************************************************)
Ev(type, from, to, text) == [type |-> type, from |-> from, to |-> to, text |-> text]
Msg(u, m) == Ev("Msg", u, <<>>, m)
Reply(u, t, m) == Ev("Reply", u, t, m)
Join(u) == Ev("Join", u, <<>>, <<>>)
Leave(u) == Ev("Leave", u, <<>>, <<>>)
Terminate == Ev("Terminate", <<>>, <<>>, <<>>)

(***************************************************************************)
(* State.                                                                  *)
(***************************************************************************)
Nodes == 0..(MaxNodes - 1)
root_channel == 0

VARIABLES
    channels,   \* node -> Channel {perms, children}; nodes >= alloc are unused
    tx,         \* node -> every event sent on the node's broadcast bus so far
    alloc,      \* the next unused node
    users,      \* Server.users: account name -> UserConfig
    user,       \* session -> User {buffer, cursor, state, channel, path} and
                \* where the session is in its life
    task,       \* session -> its delivery task: position and captured Notify
    conn,       \* session -> what the delivery task wrote to the connection
    pending,    \* session -> the rmch or useradd in progress between its
                \* check under the read lock and its write
    quota,      \* session -> the Msg and Reply events its user still publishes
    ghost       \* session -> history: bus length and conn length at the last
                \* subscribe, the number of subscriptions made, and the bus
                \* length of the channel it removed last

vars == <<channels, tx, alloc, users, user, task, conn, pending, quota, ghost>>

EmptyMap == [x \in {} |-> 0]

\* Channel::new
Channel_new == [perms |-> <<>>, children |-> EmptyMap]

Normal == [kind |-> "Normal", tag |-> "", data |-> <<>>]
Info(tag, data) == [kind |-> "Info", tag |-> tag, data |-> data]

NoSub == [node |-> 0, next |-> 0]
NoPending == [on |-> FALSE, op |-> "", parent |-> 0, name |-> <<>>]

\* a session before channel_open_session
User_none ==
    [life |-> "new", buffer |-> <<>>, cursor |-> 0, state |-> Normal,
     channel |-> NoSub, path |-> <<>>]

\* has the session a live Subscription on the bus of node n: its User
\* exists and holds the Receiver and the cloned Sender
subscribed(s, n) ==
    user[s].life \in {"open", "closed", "panicked"} /\ user[s].channel.node = n

(***************************************************************************)
(* The channel tree and the bus.                                           *)
(***************************************************************************)
\* Server::channel_from_path: follow the components from the root; a
\* component that names no child ends the walk at the node reached so far
\* (the inner None is replaced by that node), so the Option is always Some
RECURSIVE walk(_, _)
walk(n, segs) ==
    IF segs = <<>> THEN n
    ELSE IF Head(segs) \in DOMAIN channels[n].children
        THEN walk(channels[n].children[Head(segs)], Tail(segs))
        ELSE n

channel_from_path(p) == {walk(root_channel, p)}

\* a Receiver that would replay the bus from its first event, to compare
\* with Channel::subscribe
subscribe_from_first(n) == [node |-> n, next |-> 0]

\* Channel::subscribe: a Receiver that starts at the bus's tail
subscribe(n) == [node |-> n, next |-> Len(tx[n])]

\* the nodes of the tree: those still held by a children map
RECURSIVE Reach(_, _)
Reach(S, k) ==
    IF k = 0 THEN S
    ELSE Reach(S \cup UNION {{channels[m].children[c] :
                                c \in DOMAIN channels[m].children} : m \in S},
               k - 1)

Tree == Reach({root_channel}, MaxNodes)

\* the Senders of a bus if a Subscription held no clone of it, to compare
\* with senders
senders_of_tree(n) == IF n \in Tree THEN 1 ELSE 0

\* the live Senders of node n's bus: Channel.tx while the Channel is in
\* the tree, and the clone in every SubscribedChannel
senders(n) ==
    (IF n \in Tree THEN 1 ELSE 0)
    + Cardinality({t \in Sessions : subscribed(t, n)})

\* a receiver that would hand out the newest pending event instead of the
\* oldest, to compare with try_recv
try_recv_newest(sub) ==
    LET tail == Len(tx[sub.node])
    IN  IF sub.next = tail
        THEN [kind |-> "Empty", pos |-> 0, missed |-> 0, next |-> sub.next]
        ELSE [kind |-> "Ok", pos |-> tail, missed |-> 0, next |-> sub.next + 1]

\* broadcast::Receiver::try_recv on a bus of BUFFER_SIZE slots: at the tail
\* Empty, or Closed once no Sender is left; Lagged(missed) when more than
\* BUFFER_SIZE events are pending (the receiver then continues at the oldest
\* retained one), else the next event
try_recv(sub) ==
    LET tail == Len(tx[sub.node])
    IN  IF sub.next = tail
        THEN [kind |-> IF senders(sub.node) = 0 THEN "Closed" ELSE "Empty",
              pos |-> 0, missed |-> 0, next |-> sub.next]
        ELSE IF tail - sub.next > BUFFER_SIZE
        THEN [kind |-> "Lagged", pos |-> 0, missed |-> tail - BUFFER_SIZE - sub.next,
              next |-> tail - BUFFER_SIZE]
        ELSE [kind |-> "Ok", pos |-> sub.next + 1, missed |-> 0, next |-> sub.next + 1]

\* the sessions holding a Receiver of node n's bus
receivers(n) == {t \in Sessions : subscribed(t, n)}

\* Notify::notify_waiters: the tasks waiting on node n's Notify run again;
\* a task that is not yet waiting is not woken later
notify_waiters(n) ==
    [t \in Sessions |->
        IF task[t].pc = "waiting" /\ task[t].notify = n
        THEN [task[t] EXCEPT !.pc = "loop"] ELSE task[t]]

\* SubscribedChannel::send of the events evs, one after the other
send(n, evs) ==
    /\ tx' = [tx EXCEPT ![n] = @ \o evs]
    /\ task' = notify_waiters(n)

\* User::buf_clear
buf_clear(u) == [u EXCEPT !.buffer = <<>>, !.cursor = 0]

\* User::info
info(u, tag, data) == [u EXCEPT !.state = Info(tag, data)]

(***************************************************************************)
(* Session set-up and tear-down.                                           *)
(***************************************************************************)
\* has the handler of s the User lock free (no command of s is under way)
idle(s) == ~pending[s].on

\* User::new up to task::spawn: the delivery task exists before the
\* Arc that holds the User does
spawn(s) ==
    /\ user[s].life = "new"
    /\ user' = [user EXCEPT ![s].life = "init"]
    /\ task' = [task EXCEPT ![s].pc = "start"]
    /\ UNCHANGED <<channels, tx, alloc, users, conn, pending, ghost, quota>>

\* the rest of channel_open_session: the User is built, subscribed to "/",
\* and Join is sent (a send error is ignored)
channel_open_session(s) ==
    /\ user[s].life = "init"
    /\ user' = [user EXCEPT ![s] =
            [life |-> "open", buffer |-> <<>>, cursor |-> 0, state |-> Normal,
             channel |-> subscribe(root_channel), path |-> <<>>]]
    /\ ghost' = [ghost EXCEPT ![s] =
            [start |-> Len(tx[root_channel]), mark |-> Len(conn[s]), subs |-> 1,
             cut |-> @.cut]]
    /\ send(root_channel, <<Join(s)>>)
    /\ UNCHANGED <<channels, alloc, users, conn, pending, quota>>

\* Handler::channel_close, as run for Ctrl-C, for quit and for the close
\* callback: the two sends, in the order of the code
close(s) ==
    /\ send(user[s].channel.node, <<Terminate, Leave(s)>>)
    /\ user' = [user EXCEPT ![s].life = "closed"]
    /\ UNCHANGED <<channels, alloc, users, conn, pending, ghost, quota>>

channel_close(s) ==
    /\ user[s].life = "open"
    /\ idle(s)
    /\ close(s)

\* the handler panicked: the connection's task unwinds
panic(s) ==
    /\ user' = [user EXCEPT ![s].life = "panicked"]
    /\ pending' = [pending EXCEPT ![s] = NoPending]
    /\ UNCHANGED <<channels, tx, alloc, users, task, conn, ghost, quota>>

\* Drop for ChatClient and for User: the Receiver goes and the delivery
\* task is aborted
drop(s) ==
    /\ user[s].life \in {"open", "closed", "panicked"}
    /\ idle(s)
    /\ user' = [user EXCEPT ![s].life = "gone"]
    /\ task' = [task EXCEPT ![s].pc =
            IF @ \in {"done", "panicked", "unreachable"} THEN @ ELSE "aborted"]
    /\ UNCHANGED <<channels, tx, alloc, users, conn, pending, ghost, quota>>

(***************************************************************************)
(* The delivery task, User::event_loop.                                    *)
(***************************************************************************)
\* the task's first step: upgrade the Weak and take the channel's Notify;
\* while User::new has not returned there is nothing to upgrade
event_loop_start(s) ==
    /\ task[s].pc = "start"
    /\ idle(s)
    /\ task' = [task EXCEPT ![s] =
            IF user[s].life = "init"
            THEN [pc |-> "panicked", notify |-> 0]
            ELSE [pc |-> "loop", notify |-> user[s].channel.node]]
    /\ UNCHANGED <<channels, tx, alloc, users, user, conn, pending, ghost, quota>>

\* the User after a turn of the loop that would also empty the edit buffer,
\* to compare with delivered
delivered_cleared(u, r) == buf_clear([u EXCEPT !.channel.next = r.next])

\* the User after a turn of the loop: only the Receiver has moved
delivered(u, r) == [u EXCEPT !.channel.next = r.next]

\* the writes to the connection for one event, by the state of the User,
\* each named by what is written: the event's line, after the erased input
\* line or the cleared overlay, and before the overlay and the buffer
render(u) ==
    IF u.state.kind = "Normal"
    THEN IF u.buffer # <<>> THEN <<"erase", "event", "buffer">> ELSE <<"event">>
    ELSE <<"clear_info", "event", "data", "buffer">>

\* one turn of the loop under the User lock: try_recv, then render
event_loop(s) ==
    /\ task[s].pc = "loop"
    /\ user[s].life \in {"open", "closed", "panicked"}
    /\ idle(s)
    /\ LET r == try_recv(user[s].channel)
           e == tx[user[s].channel.node][r.pos]
       IN  /\ user' = [user EXCEPT ![s] = delivered(@, r)]
           /\ CASE r.kind = "Empty" ->
                    /\ task' = [task EXCEPT ![s].pc = "parked"]
                    /\ conn' = conn
                [] r.kind = "Closed" ->
                    /\ task' = [task EXCEPT ![s].pc = "unreachable"]
                    /\ conn' = conn
                [] r.kind = "Lagged" ->
                    /\ task' = task
                    /\ conn' = [conn EXCEPT ![s] = Append(@,
                            [kind |-> "lag", node |-> user[s].channel.node,
                             pos |-> 0, missed |-> r.missed])]
                [] r.kind = "Ok" /\ e.type = "Terminate" ->
                    /\ task' = [task EXCEPT ![s].pc = "done"]
                    /\ conn' = conn
                [] r.kind = "Ok" /\ e.type # "Terminate" ->
                    /\ task' = task
                    /\ conn' = [conn EXCEPT ![s] = Append(@,
                            [kind |-> "event", node |-> user[s].channel.node,
                             pos |-> r.pos, missed |-> 0])]
    /\ UNCHANGED <<channels, tx, alloc, users, pending, ghost, quota>>

\* notify.notified(): after the lock is dropped the task starts to wait
notified(s) ==
    /\ task[s].pc = "parked"
    /\ task' = [task EXCEPT ![s].pc = "waiting"]
    /\ UNCHANGED <<channels, tx, alloc, users, user, conn, pending, ghost, quota>>

(***************************************************************************)
(* The command dispatcher, ChatClient::command.                            *)
(***************************************************************************)
S_reply == <<114, 101, 112, 108, 121>>
S_r == <<114>>
S_useradd == <<117, 115, 101, 114, 97, 100, 100>>
S_passwd_reset == <<112, 97, 115, 115, 119, 100, 45, 114, 101, 115, 101, 116>>
S_passwd == <<112, 97, 115, 115, 119, 100>>
S_lsch == <<108, 115, 99, 104>>
S_all_users == <<97, 108, 108, 45, 117, 115, 101, 114, 115>>
S_lsa == <<108, 115, 97>>
S_channel_perms == <<99, 104, 97, 110, 110, 101, 108, 45, 112, 101, 114, 109, 115>>
S_lsperm == <<108, 115, 112, 101, 114, 109>>

\* [&str]::join(" ")
RECURSIVE join_sp(_)
join_sp(args) ==
    IF args = <<>> THEN <<>>
    ELSE IF Len(args) = 1 THEN args[1]
    ELSE args[1] \o <<32>> \o join_sp(Tail(args))

\* str::split_once(' ') as an Option of (before, after)
split_once(a) ==
    LET I == {i \in 1..Len(a) : a[i] = 32}
    IN  IF I = {} THEN {}
        ELSE LET i == CHOOSE k \in I : \A j \in I : k <= j
             IN  {<<SubSeq(a, 1, i - 1), SubSeq(a, i + 1, Len(a))>>}

\* UserConfig::hash: a deterministic digest of the password bytes
hash(pass) == [of |-> pass]

\* UserConfig::gen_pass: eight random alphanumeric bytes
gen_pass == {<<49, 49, 49, 49, 49, 49, 49, 49>>, <<50, 50, 50, 50, 50, 50, 50, 50>>}

\* CommandError
CommandError ==
    {"InvalidUtf8", "InvalidArgs", "InvalidPath", "InvalidCommand", "NotFound",
     "AlreadyExists", "Forbidden", "Unimplemented"}

\* the command returned Err(e): Handler::data shows it and clears the buffer
fail(s, e) ==
    /\ user' = [user EXCEPT ![s] = buf_clear(info(@, e, <<>>))]
    /\ UNCHANGED <<channels, tx, alloc, users, task, conn, pending, ghost, quota>>

\* the command's arm only showed an overlay; the buffer is cleared after it
show(s, tag, data) ==
    /\ user' = [user EXCEPT ![s] = buf_clear(info(@, tag, data))]
    /\ UNCHANGED <<channels, tx, alloc, users, task, conn, pending, ghost, quota>>

\* the arm had nothing to change; the buffer is cleared after it
done(s) ==
    /\ user' = [user EXCEPT ![s] = buf_clear(@)]
    /\ UNCHANGED <<channels, tx, alloc, users, task, conn, pending, ghost, quota>>

cmd_reply(s, args) ==
    LET so == split_once(join_sp(args))
    IN  IF so = {} THEN fail(s, "InvalidArgs")
        ELSE LET nm == CHOOSE x \in so : TRUE
             IN  IF nm[1] \notin DOMAIN users THEN fail(s, "NotFound")
                 ELSE IF receivers(user[s].channel.node) = {} THEN panic(s)
                 ELSE /\ quota[s] > 0
                      /\ quota' = [quota EXCEPT ![s] = @ - 1]
                      /\ send(user[s].channel.node, <<Reply(s, nm[1], nm[2])>>)
                      /\ user' = [user EXCEPT ![s] = buf_clear(@)]
                      /\ UNCHANGED <<channels, alloc, users, conn, pending, ghost>>

\* a useradd that would store the account before it looks for the name, to
\* compare with the useradd arm
cmd_useradd_unchecked(s, n) ==
    IF get_global_perms(users[s]) < MANAGE THEN fail(s, "Forbidden")
    ELSE \E pass \in gen_pass :
            /\ users' = (n :> Config(hash(pass), <<>>)) @@ users
            /\ user' = [user EXCEPT ![s] = buf_clear(info(@,
                    IF n \in DOMAIN users THEN "AlreadyExists" ELSE "pass",
                    IF n \in DOMAIN users THEN <<>> ELSE pass))]
            /\ UNCHANGED <<channels, tx, alloc, task, conn, pending, ghost, quota>>

\* useradd up to the look-up of the name under the registry's read lock
cmd_useradd(s, n) ==
    IF get_global_perms(users[s]) < MANAGE THEN fail(s, "Forbidden")
    ELSE IF n \in DOMAIN users THEN fail(s, "AlreadyExists")
    ELSE /\ pending' = [pending EXCEPT ![s] =
                [on |-> TRUE, op |-> "useradd", parent |-> 0, name |-> n]]
         /\ UNCHANGED <<channels, tx, alloc, users, user, task, conn, ghost, quota>>

\* the end of useradd: a password is drawn and users.insert(name, ..) runs
\* under the write lock, taken after the read lock of the look-up was
\* released; HashMap::insert replaces a value that is there
useradd_insert(s) ==
    /\ pending[s].on
    /\ pending[s].op = "useradd"
    /\ \E pass \in gen_pass :
            /\ users' = (pending[s].name :> Config(hash(pass), <<>>)) @@ users
            /\ user' = [user EXCEPT ![s] = buf_clear(info(@, "pass", pass))]
    /\ pending' = [pending EXCEPT ![s] = NoPending]
    /\ UNCHANGED <<channels, tx, alloc, task, conn, ghost, quota>>

\* a passwd-reset that would not look at the caller's level, to compare
\* with the passwd-reset arm
cmd_passwd_reset_open(s, n) ==
    IF n \notin DOMAIN users THEN fail(s, "NotFound")
    ELSE \E pass \in gen_pass :
            /\ users' = [users EXCEPT ![n].hash = hash(pass)]
            /\ user' = [user EXCEPT ![s] = buf_clear(info(@, "pass", pass))]
            /\ UNCHANGED <<channels, tx, alloc, task, conn, pending, ghost, quota>>

cmd_passwd_reset(s, n) ==
    IF get_global_perms(users[s]) < MANAGE THEN fail(s, "Forbidden")
    ELSE IF n \notin DOMAIN users THEN fail(s, "NotFound")
    ELSE \E pass \in gen_pass :
            /\ users' = [users EXCEPT ![n].hash = hash(pass)]
            /\ user' = [user EXCEPT ![s] = buf_clear(info(@, "pass", pass))]
            /\ UNCHANGED <<channels, tx, alloc, task, conn, pending, ghost, quota>>

cmd_passwd(s, pass) ==
    /\ users' = [users EXCEPT ![s].hash = hash(pass)]
    /\ user' = [user EXCEPT ![s] = buf_clear(@)]
    /\ UNCHANGED <<channels, tx, alloc, task, conn, pending, ghost, quota>>

\* mkch: no permission is looked at; the new channel's perms are pushed as
\* All first, then User(creator)
cmd_mkch(s, arg) ==
    LET p == join(user[s].path, arg)
    IN  IF parent(p) = {} \/ file_name(p) = {} THEN fail(s, "InvalidPath")
        ELSE LET par == walk(root_channel, Front(p))
                 n   == Last(p)
             IN  IF n \in DOMAIN channels[par].children
                 THEN fail(s, "AlreadyExists")
                 ELSE /\ alloc < MaxNodes
                      /\ channels' = [channels EXCEPT
                            ![par].children = (n :> alloc) @@ @,
                            ![alloc] = [perms |-> <<All(BitOr(READ, WRITE)),
                                    User(s, BitOr(BitOr(READ, WRITE), MANAGE))>>,
                                children |-> EmptyMap]]
                      /\ alloc' = alloc + 1
                      /\ user' = [user EXCEPT ![s] = buf_clear(@)]
                      /\ UNCHANGED <<tx, users, task, conn, pending, ghost, quota>>

\* rmch up to the permission scan: any perms entry of the target that
\* applies to the caller lets it pass, else a global level above MANAGE
rmch_allowed(perms, n, config) ==
    \/ find(perms, n, config) # {}
    \/ get_global_perms(config) > MANAGE

cmd_rmch(s, arg) ==
    LET p == join(user[s].path, arg)
    IN  IF parent(p) = {} \/ file_name(p) = {} THEN fail(s, "InvalidPath")
        ELSE LET par == walk(root_channel, Front(p))
                 n   == Last(p)
             IN  IF n \notin DOMAIN channels[par].children
                 THEN fail(s, "NotFound")
                 ELSE IF ~rmch_allowed(channels[channels[par].children[n]].perms,
                                       s, users[s])
                 THEN fail(s, "Forbidden")
                 ELSE /\ pending' = [pending EXCEPT ![s] =
                            [on |-> TRUE, op |-> "rmch", parent |-> par, name |-> n]]
                      /\ UNCHANGED <<channels, tx, alloc, users, user, task, conn, ghost, quota>>

\* the end of rmch: children.remove(name).unwrap() under the write lock,
\* taken after the read lock of the scan was released
rmch_remove(s) ==
    /\ pending[s].on
    /\ pending[s].op = "rmch"
    /\ LET par == pending[s].parent
           n   == pending[s].name
       IN  IF n \in DOMAIN channels[par].children
           THEN /\ channels' = [channels EXCEPT ![par].children =
                        [k \in DOMAIN @ \ {n} |-> @[k]]]
                /\ user' = [user EXCEPT ![s] = buf_clear(@)]
                /\ pending' = [pending EXCEPT ![s] = NoPending]
                /\ ghost' = [ghost EXCEPT ![s].cut = Len(tx[channels[par].children[n]])]
                /\ UNCHANGED <<tx, alloc, users, task, conn, quota>>
           ELSE panic(s)

\* ch: the path is stored and the Subscription replaced, under the User
\* lock
cmd_ch(s, arg) ==
    LET p == join(user[s].path, arg)
        n == walk(root_channel, p)
    IN  /\ ghost[s].subs < MaxSubs
        /\ user' = [user EXCEPT ![s] =
                buf_clear([@ EXCEPT !.path = p, !.channel = subscribe(n)])]
        /\ ghost' = [ghost EXCEPT ![s] =
                [start |-> Len(tx[n]), mark |-> Len(conn[s]), subs |-> @.subs + 1,
                 cut |-> @.cut]]
        /\ UNCHANGED <<channels, tx, alloc, users, task, conn, pending, quota>>

command(s, data) ==
    IF ~from_utf8_ok(data) THEN fail(s, "InvalidUtf8")
    ELSE LET cmd == split(data, 32)
             n   == Len(cmd)
         IN  CASE cmd \in {<<S_help>>, <<S_h>>} -> show(s, "help", <<>>)
               [] cmd \in {<<S_quit>>, <<S_q>>} -> close(s)
               [] cmd = <<S_clear>> -> done(s)
               [] cmd[1] \in {S_reply, S_r} -> cmd_reply(s, Tail(cmd))
               [] n = 2 /\ cmd[1] = S_useradd -> cmd_useradd(s, cmd[2])
               [] n = 2 /\ cmd[1] = S_passwd_reset -> cmd_passwd_reset(s, cmd[2])
               [] n = 2 /\ cmd[1] = S_passwd -> cmd_passwd(s, cmd[2])
               [] cmd[1] \in {S_make_priv_channel, S_mkchp} -> panic(s)
               [] n = 2 /\ cmd[1] = S_mkch -> cmd_mkch(s, cmd[2])
               [] n = 2 /\ cmd[1] \in {S_remove_channel, S_rmch} -> cmd_rmch(s, cmd[2])
               [] n = 2 /\ cmd[1] \in {S_channel, S_ch} -> cmd_ch(s, cmd[2])
               [] cmd = <<S_pwch>> -> show(s, "pwch", <<>>)
               [] cmd = <<S_lsch>> -> show(s, "lsch", <<>>)
               [] n = 2 /\ cmd[1] = S_lsch -> show(s, "lsch", <<>>)
               [] cmd \in {<<S_users>>, <<S_ls>>} -> fail(s, "Unimplemented")
               [] cmd \in {<<S_all_users>>, <<S_lsa>>} -> show(s, "lsa", <<>>)
               [] n = 2 /\ cmd[1] = S_user -> fail(s, "Unimplemented")
               [] n = 2 /\ cmd[1] \in {S_channel_perms, S_lsperm} ->
                    show(s, "lsperm", <<>>)
               [] OTHER -> fail(s, "InvalidCommand")

(***************************************************************************)
(* The line editor, Handler::data.                                         *)
(***************************************************************************)
\* Enter on a buffer that is no command: the buffer is sent as a Msg
submit(s) ==
    IF ~from_utf8_ok(user[s].buffer) \/ receivers(user[s].channel.node) = {}
    THEN panic(s)
    ELSE /\ quota[s] > 0
         /\ quota' = [quota EXCEPT ![s] = @ - 1]
         /\ send(user[s].channel.node, <<Msg(s, user[s].buffer)>>)
         /\ user' = [user EXCEPT ![s] = buf_clear(@)]
         /\ UNCHANGED <<channels, alloc, users, conn, pending, ghost>>

enter(s) ==
    IF user[s].buffer = <<>> THEN UNCHANGED vars
    ELSE \E t \in trim(user[s].buffer) :
            CASE t.kind = "abort" -> panic(s)
              [] t.kind = "wild" /\ t.colon -> fail(s, "InvalidUtf8")
              [] t.kind = "slice" /\ t.val # <<>> /\ t.val[1] = 58 ->
                    command(s, Tail(t.val))
              [] OTHER -> submit(s)

backspace(s) ==
    IF user[s].cursor = 0 THEN UNCHANGED vars
    ELSE /\ user' = [user EXCEPT
                ![s].buffer = SubSeq(@, 1, user[s].cursor - 1)
                              \o SubSeq(@, user[s].cursor + 1, Len(@)),
                ![s].cursor = @ - 1]
         /\ UNCHANGED <<channels, tx, alloc, users, task, conn, pending, ghost, quota>>

\* a right arrow that would not look at the end of the buffer, to compare
\* with right
right_unbounded(s) ==
    /\ user' = [user EXCEPT ![s].cursor = @ + 1]
    /\ UNCHANGED <<channels, tx, alloc, users, task, conn, pending, ghost, quota>>

right(s) ==
    IF user[s].cursor = Len(user[s].buffer) THEN UNCHANGED vars
    ELSE /\ user' = [user EXCEPT ![s].cursor = @ + 1]
         /\ UNCHANGED <<channels, tx, alloc, users, task, conn, pending, ghost, quota>>

left(s) ==
    IF user[s].cursor = 0 THEN UNCHANGED vars
    ELSE /\ user' = [user EXCEPT ![s].cursor = @ - 1]
         /\ UNCHANGED <<channels, tx, alloc, users, task, conn, pending, ghost, quota>>

\* buffer.splice(cursor..cursor, data): whatever the length
insert(s, d) ==
    /\ user' = [user EXCEPT
            ![s].buffer = SubSeq(@, 1, user[s].cursor) \o d
                          \o SubSeq(@, user[s].cursor + 1, Len(@)),
            ![s].cursor = @ + Len(d)]
    /\ UNCHANGED <<channels, tx, alloc, users, task, conn, pending, ghost, quota>>

\* Handler::data for the input chunk d
data(s, d) ==
    /\ user[s].life = "open"
    /\ idle(s)
    /\ IF user[s].state.kind = "Info"
       THEN /\ user' = [user EXCEPT ![s].state = Normal]
            /\ UNCHANGED <<channels, tx, alloc, users, task, conn, pending, ghost, quota>>
       ELSE CASE d = <<3>> -> close(s)
              [] d = <<13>> -> enter(s)
              [] d = <<127>> -> backspace(s)
              [] d \in {<<27, 91, 65>>, <<27, 91, 66>>} -> UNCHANGED vars
              [] d = <<27, 91, 67>> -> right(s)
              [] d = <<27, 91, 68>> -> left(s)
              [] OTHER -> insert(s, d)

(***************************************************************************)
(* Specifications.                                                         *)
(***************************************************************************)
\* the chunks Handler::data takes as text to insert
is_text(d) ==
    d \notin {<<3>>, <<13>>, <<127>>, <<27, 91, 65>>, <<27, 91, 66>>,
              <<27, 91, 67>>, <<27, 91, 68>>}

\* the client sends the chunk d; the modelled users type each line as one
\* chunk of text
keystroke(s, d) ==
    /\ (is_text(d) /\ user[s].state.kind = "Normal") => user[s].buffer = <<>>
    /\ data(s, d)

\* "s": the name of the child channel
S_s == <<115>>

InitSessions ==
    /\ tx = [n \in Nodes |-> <<>>]
    /\ user = [s \in Sessions |-> User_none]
    /\ task = [s \in Sessions |-> [pc |-> "none", notify |-> 0]]
    /\ conn = [s \in Sessions |-> <<>>]
    /\ pending = [s \in Sessions |-> NoPending]
    /\ ghost = [s \in Sessions |-> [start |-> 0, mark |-> 0, subs |-> 0, cut |-> 0]]

\* the persisted tree "/" with the child "/s", and two plain accounts
TreeWithChild ==
    /\ channels = [n \in Nodes |->
            IF n = 0 THEN [perms |-> <<>>, children |-> (S_s :> 1)]
            ELSE IF n = 1 THEN [perms |-> <<All(BitOr(READ, WRITE))>>,
                                children |-> EmptyMap]
            ELSE Channel_new]
    /\ alloc = 2
    /\ users = [s \in Sessions |-> Config(hash(s), <<>>)]

K_hello == <<104, 101, 108, 108, 111>>
K_hell_ff == <<104, 101, 108, 108, 255>>
K_ch_s == <<58, 99, 104, 32, 115>>
K_ch_root == <<58, 99, 104, 32, 47>>
K_enter == <<13>>
K_ctrl_c == <<3>>

\* Chat: alice types "hello" or "hell" with a lone 0xFF byte and presses
\* Enter; bob listens and leaves with Ctrl-C
InitChat ==
    /\ InitSessions
    /\ TreeWithChild
    /\ quota = [s \in Sessions |-> IF s = alice THEN ChatMsgs ELSE 0]

ChatKeys(s) == IF s = alice THEN {K_hello, K_hell_ff, K_enter} ELSE {K_ctrl_c}

NextChat ==
    \E s \in Sessions :
        \/ spawn(s)
        \/ channel_open_session(s)
        \/ \E d \in ChatKeys(s) : keystroke(s, d)
        \/ drop(s)
        \/ event_loop_start(s)
        \/ event_loop(s)
        \/ notified(s)

SpecChat == InitChat /\ [][NextChat]_vars

\* Switch: alice types "hello", ":ch s" or ":ch /" and presses Enter; bob
\* joins and listens
InitSwitch ==
    /\ InitSessions
    /\ TreeWithChild
    /\ quota = [s \in Sessions |-> IF s = alice THEN SwitchMsgs ELSE 0]

SwitchKeys(s) == IF s = alice THEN {K_hello, K_ch_s, K_ch_root, K_enter} ELSE {}

NextSwitch ==
    \E s \in Sessions :
        \/ spawn(s)
        \/ channel_open_session(s)
        \/ \E d \in SwitchKeys(s) : keystroke(s, d)
        \/ drop(s)
        \/ event_loop_start(s)
        \/ event_loop(s)
        \/ notified(s)

SpecSwitch == InitSwitch /\ [][NextSwitch]_vars

\* Tree: the persisted tree is "/" with the child "/t"; alice creates "/s"
\* and removes "/s" or "/t", bob removes "/s"; nobody chats
K_mkch_s == <<58, 109, 107, 99, 104, 32, 115>>
K_rmch_s == <<58, 114, 109, 99, 104, 32, 115>>
K_rmch_t == <<58, 114, 109, 99, 104, 32, 116>>
S_t == <<116>>

\* persisted perms lists as they stand in the state file, before
\* perms_sorted
RawPerms ==
    { <<>>,
      <<All(BitOr(READ, WRITE)), User(alice, BitOr(BitOr(READ, WRITE), MANAGE))>>,
      <<All(BitOr(READ, WRITE)), Role(RoleM, BitOr(BitOr(READ, WRITE), MANAGE)),
        User(bob, BitOr(READ, WRITE))>> }

InitTree ==
    /\ InitSessions
    /\ \E r0, r1 \in RawPerms :
        \E p0 \in perms_sorted(r0) : \E p1 \in perms_sorted(r1) :
            channels = [n \in Nodes |->
                IF n = 0 THEN [perms |-> p0, children |-> (S_t :> 1)]
                ELSE IF n = 1 THEN [perms |-> p1, children |-> EmptyMap]
                ELSE Channel_new]
    /\ alloc = 2
    /\ \E roles \in {<<>>, <<Grant(RoleM, MANAGE)>>} :
            users = [s \in Sessions |->
                        Config(hash(s), IF s = alice THEN roles ELSE <<>>)]
    /\ quota = [s \in Sessions |-> 0]

TreeKeys(s) ==
    IF s = alice THEN {K_mkch_s, K_rmch_s, K_rmch_t, K_enter}
    ELSE {K_rmch_s, K_enter}

NextTree ==
    \E s \in Sessions :
        \/ spawn(s)
        \/ channel_open_session(s)
        \/ \E d \in TreeKeys(s) : keystroke(s, d)
        \/ rmch_remove(s)
        \/ drop(s)
        \/ event_loop_start(s)
        \/ event_loop(s)
        \/ notified(s)

SpecTree == InitTree /\ [][NextTree]_vars

\* Cmd: the persisted tree is "/" with the child "/s", which only bob may
\* manage; alice, whose role m is plain or admin, types command lines and a
\* long paste; bob has an account and is not connected
K_ch_x == <<58, 99, 104, 32, 120>>
K_mkch_xy == <<58, 109, 107, 99, 104, 32, 120, 47, 121>>
K_mkch_root == <<58, 109, 107, 99, 104, 32, 47>>
K_reply_b_h == <<58, 114, 32, 98, 32, 32, 104>>
K_reply_b == <<58, 114, 32, 98>>
K_useradd_c == <<58, 117, 115, 101, 114, 97, 100, 100, 32, 99>>
K_useradd_b == <<58, 117, 115, 101, 114, 97, 100, 100, 32, 98>>
K_passwd_reset_c == <<58, 112, 97, 115, 115, 119, 100, 45, 114, 101, 115, 101, 116, 32, 99>>
K_ls == <<58, 108, 115>>
K_x == <<58, 120>>
K_colon_ff == <<58, 255>>
K_paste == [i \in 1..(BUFFER_HINT + 1) |-> 97]
S_c == <<99>>

InitCmd ==
    /\ InitSessions
    /\ channels = [n \in Nodes |->
            IF n = 0 THEN [perms |-> <<>>, children |-> (S_s :> 1)]
            ELSE IF n = 1
            THEN [perms |-> <<User(bob, BitOr(BitOr(READ, WRITE), MANAGE))>>,
                  children |-> EmptyMap]
            ELSE Channel_new]
    /\ alloc = 2
    /\ \E level \in {BitOr(READ, WRITE), BitOr(BitOr(READ, WRITE), MANAGE)} :
            users = [s \in Sessions |->
                Config(hash(s), IF s = alice THEN <<Grant(RoleM, level)>> ELSE <<>>)]
    /\ quota = [s \in Sessions |-> IF s = alice THEN CmdMsgs ELSE 0]

CmdKeys ==
    {K_ch_x, K_mkch_xy, K_mkch_s, K_mkch_root, K_reply_b_h, K_reply_b,
     K_useradd_c, K_useradd_b, K_passwd_reset_c, K_ls, K_x, K_colon_ff,
     K_paste, K_enter}

NextCmd ==
    \E s \in {alice} :
        \/ spawn(s)
        \/ channel_open_session(s)
        \/ \E d \in CmdKeys : keystroke(s, d)
        \/ useradd_insert(s)
        \/ drop(s)
        \/ event_loop_start(s)
        \/ event_loop(s)
        \/ notified(s)

SpecCmd == InitCmd /\ [][NextCmd]_vars

\* Orphan: alice and bob each type ":ch s" once; from then on alice removes
\* "/s" by its absolute path and chats where she is
K_rmch_abs_s == <<58, 114, 109, 99, 104, 32, 47, 115>>

InitOrphan ==
    /\ InitSessions
    /\ TreeWithChild
    /\ quota = [s \in Sessions |-> IF s = alice THEN OrphanMsgs ELSE 0]

OrphanKeys(s) ==
    IF user[s].path = <<>> THEN {K_ch_s, K_enter}
    ELSE IF s = alice THEN {K_rmch_abs_s, K_hello, K_enter}
    ELSE {K_enter}

NextOrphan ==
    \E s \in Sessions :
        \/ spawn(s)
        \/ channel_open_session(s)
        \/ \E d \in OrphanKeys(s) : keystroke(s, d)
        \/ rmch_remove(s)
        \/ drop(s)
        \/ event_loop_start(s)
        \/ event_loop(s)
        \/ notified(s)

SpecOrphan == InitOrphan /\ [][NextOrphan]_vars

\* Wake: alice and bob connect and stay; alice types "hello" and presses
\* Enter.  The delivery tasks are scheduled fairly, the users are not
InitWake ==
    /\ InitSessions
    /\ TreeWithChild
    /\ quota = [s \in Sessions |-> IF s = alice THEN WakeMsgs ELSE 0]

WakeKeys(s) == IF s = alice THEN {K_hello, K_enter} ELSE {}

NextWake ==
    \E s \in Sessions :
        \/ spawn(s)
        \/ channel_open_session(s)
        \/ \E d \in WakeKeys(s) : keystroke(s, d)
        \/ event_loop_start(s)
        \/ event_loop(s)
        \/ notified(s)

\* the tokio runtime polls every spawned task that is ready to run
FairTasks ==
    \A s \in Sessions :
        /\ WF_vars(event_loop_start(s))
        /\ WF_vars(event_loop(s))
        /\ WF_vars(notified(s))

SpecWake == InitWake /\ [][NextWake]_vars /\ FairTasks

\* Follow: alice and bob each type ":ch s" once; from then on bob types
\* "hello" and presses Enter.  The delivery tasks are scheduled fairly
InitFollow ==
    /\ InitSessions
    /\ TreeWithChild
    /\ quota = [s \in Sessions |-> IF s = bob THEN FollowMsgs ELSE 0]

FollowKeys(s) ==
    IF user[s].path = <<>> THEN {K_ch_s, K_enter}
    ELSE IF s = bob THEN {K_hello, K_enter}
    ELSE {K_enter}

NextFollow ==
    \E s \in Sessions :
        \/ spawn(s)
        \/ channel_open_session(s)
        \/ \E d \in FollowKeys(s) : keystroke(s, d)
        \/ event_loop_start(s)
        \/ event_loop(s)
        \/ notified(s)

SpecFollow == InitFollow /\ [][NextFollow]_vars /\ FairTasks

\* Quit: alice leaves with Ctrl-C while bob types "hello" and presses Enter;
\* the closed connection is not dropped.  The delivery tasks are scheduled
\* fairly
InitQuit ==
    /\ InitSessions
    /\ TreeWithChild
    /\ quota = [s \in Sessions |-> IF s = bob THEN QuitMsgs ELSE 0]

QuitKeys(s) == IF s = alice THEN {K_ctrl_c} ELSE {K_hello, K_enter}

NextQuit ==
    \E s \in Sessions :
        \/ spawn(s)
        \/ channel_open_session(s)
        \/ \E d \in QuitKeys(s) : keystroke(s, d)
        \/ event_loop_start(s)
        \/ event_loop(s)
        \/ notified(s)

SpecQuit == InitQuit /\ [][NextQuit]_vars /\ FairTasks

\* Race: alice and bob both hold the role m with every level, and the
\* perms of "/s" grant MANAGE to that role; each of them removes "/s" and
\* adds the account c
InitRace ==
    /\ InitSessions
    /\ channels = [n \in Nodes |->
            IF n = 0 THEN [perms |-> <<>>, children |-> (S_s :> 1)]
            ELSE IF n = 1
            THEN [perms |-> <<Role(RoleM, BitOr(BitOr(READ, WRITE), MANAGE))>>,
                  children |-> EmptyMap]
            ELSE Channel_new]
    /\ alloc = 2
    /\ users = [s \in Sessions |->
            Config(hash(s), <<Grant(RoleM, BitOr(BitOr(READ, WRITE), MANAGE))>>)]
    /\ quota = [s \in Sessions |-> 0]

RaceKeys == {K_rmch_s, K_useradd_c, K_enter}

NextRace ==
    \E s \in Sessions :
        \/ spawn(s)
        \/ channel_open_session(s)
        \/ \E d \in RaceKeys : keystroke(s, d)
        \/ rmch_remove(s)
        \/ useradd_insert(s)
        \/ drop(s)
        \/ event_loop_start(s)
        \/ event_loop(s)
        \/ notified(s)

SpecRace == InitRace /\ [][NextRace]_vars

\* Edit: alice edits her line freely, byte chunks " ", ":" and the two-byte
\* character U+00E9, backspace, the arrows and Enter, while the line is at
\* most EditLen bytes long
K_backspace == <<127>>
K_right == <<27, 91, 67>>
K_left == <<27, 91, 68>>

InitEdit ==
    /\ InitSessions
    /\ TreeWithChild
    /\ quota = [s \in Sessions |-> IF s = alice THEN EditMsgs ELSE 0]

EditKeys ==
    {<<32>>, <<58>>, <<195, 169>>, K_backspace, K_right, K_left, K_enter}

edit(s, d) ==
    /\ (is_text(d) /\ user[s].state.kind = "Normal")
            => Len(user[s].buffer) + Len(d) <= EditLen
    /\ data(s, d)

NextEdit ==
    \E s \in {alice} :
        \/ spawn(s)
        \/ channel_open_session(s)
        \/ \E d \in EditKeys : edit(s, d)
        \/ drop(s)
        \/ event_loop_start(s)
        \/ event_loop(s)
        \/ notified(s)

SpecEdit == InitEdit /\ [][NextEdit]_vars

(***************************************************************************)
(* Properties.                                                             *)
(***************************************************************************)
\* the buffer, stripped of white space at both ends, starts with ':'
IsCommandLine(buf) ==
    LET I == {i \in 1..Len(buf) : ~is_whitespace(buf[i])}
    IN  I # {} /\ buf[CHOOSE i \in I : \A j \in I : i <= j] = 58

\* the entries of conn[s] that are rendered events
Events(s) == {i \in 1..Len(conn[s]) : conn[s][i].kind = "event"}

\* C1: Enter in Normal state on a non-empty buffer that is no command
\* publishes exactly one Msg(sender, buffer) into the sender's current
\* channel and into no other bus, so that it is pending for every session
\* subscribed there, and leaves the buffer empty and the cursor at 0.
C1_EnterPublishesMsg ==
    [][\A s \in Sessions :
        (/\ data(s, K_enter)
         /\ user[s].state.kind = "Normal"
         /\ user[s].buffer # <<>>
         /\ ~IsCommandLine(user[s].buffer))
        => (/\ tx' = [tx EXCEPT ![user[s].channel.node] =
                        Append(@, Msg(s, user[s].buffer))]
            /\ \A t \in receivers(user[s].channel.node) :
                    user'[t].channel.next < Len(tx'[user[s].channel.node])
            /\ user'[s].buffer = <<>>
            /\ user'[s].cursor = 0)]_vars

\* the argument of a buffer of the form ":<name> <arg>" for a name of the
\* command, as an Option
CommandArg(buf, names) ==
    {SubSeq(buf, Len(c) + 3, Len(buf)) :
        c \in {c \in names :
                /\ Len(buf) > Len(c) + 2
                /\ SubSeq(buf, 1, Len(c) + 2) = <<58>> \o c \o <<32>>}}

\* the caller holds MANAGE on node n: the first entry of n's perms that
\* applies to the caller contains MANAGE, or the caller's global level does
Manages(s, n) ==
    \/ \E e \in find(channels[n].perms, s, users[s]) : Contains(e.level, MANAGE)
    \/ Contains(get_global_perms(users[s]), MANAGE)

\* C2: mkch by a caller that holds MANAGE neither on the parent (first
\* match of the parent's perms) nor globally fails with Forbidden and
\* leaves the tree unchanged.
C2_MkchNeedsManage ==
    [][\A s \in Sessions : \A arg \in CommandArg(user[s].buffer, {S_mkch}) :
        (/\ data(s, K_enter)
         /\ user[s].state.kind = "Normal"
         /\ join(user[s].path, arg) # <<>>
         /\ ~Manages(s, walk(root_channel, Front(join(user[s].path, arg)))))
        => (/\ channels' = channels
            /\ user'[s].state = Info("Forbidden", <<>>))]_vars

\* C3: rmch detaches the target only for a caller that holds MANAGE on it
\* (first match of the target's perms, or global admin); for every other
\* caller it fails with Forbidden and the target stays where it is.
C3_RmchNeedsManage ==
    [][\A s \in Sessions :
        \A arg \in CommandArg(user[s].buffer, {S_rmch, S_remove_channel}) :
            LET p   == join(user[s].path, arg)
                par == walk(root_channel, Front(p))
            IN  (/\ data(s, K_enter)
                 /\ user[s].state.kind = "Normal"
                 /\ p # <<>>
                 /\ Last(p) \in DOMAIN channels[par].children
                 /\ ~Manages(s, channels[par].children[Last(p)]))
                => (/\ channels' = channels
                    /\ ~pending'[s].on
                    /\ user'[s].state = Info("Forbidden", <<>>))]_vars

\* C4: where a channel's perms hold both a User(u) entry and an All entry,
\* resolution for u yields the level of the User(u) entry.
C4_UserBeatsAll ==
    \A n \in Tree : \A u \in Sessions :
        LET P  == channels[n].perms
            IU == {i \in 1..Len(P) : P[i].kind = "User" /\ P[i].who = u}
        IN  (IU # {} /\ \E i \in 1..Len(P) : P[i].kind = "All")
            => \E e \in find(P, u, users[u]) : \E i \in IU : e.level = P[i].level

\* C5: the perms of every channel in the tree are sorted by specificity:
\* User entries, then Role entries, then All entries.
C5_PermsSorted ==
    \A n \in Tree : \A i, j \in 1..Len(channels[n].perms) :
        i < j => rank(channels[n].perms[i].kind) <= rank(channels[n].perms[j].kind)

\* C6: what a session renders from one channel's bus appears in publish
\* order: of two rendered events of the same bus, the one rendered first
\* was published first.
C6_PublishOrder ==
    \A s \in Sessions : \A i, j \in Events(s) :
        (i < j /\ conn[s][i].node = conn[s][j].node)
            => conn[s][i].pos < conn[s][j].pos

\* a session has rendered, in order, events of two different publishers
\* from one bus, and was shown a lag notice
C6_Witness ==
    \E s \in Sessions : \E i, j \in Events(s) :
        /\ i < j
        /\ conn[s][i].node = conn[s][j].node
        /\ tx[conn[s][i].node][conn[s][i].pos].from
                # tx[conn[s][j].node][conn[s][j].pos].from
        /\ \E k \in 1..Len(conn[s]) : conn[s][k].kind = "lag"

\* the events a session rendered and the counts of the lag notices it was
\* shown since it subscribed
RECURSIVE Shown(_, _)
Shown(log, from) ==
    IF Len(log) <= from THEN 0
    ELSE Shown(Front(log), from)
         + (IF Last(log).kind = "event" THEN 1 ELSE Last(log).missed)

\* the events other than Terminate published into a session's channel since
\* it subscribed
Published(s) ==
    Cardinality({i \in (ghost[s].start + 1)..Len(tx[user[s].channel.node]) :
                    tx[user[s].channel.node][i].type # "Terminate"})

\* C7: once a subscriber whose session is open has drained the bus, the
\* events it rendered plus the counts of its lag notices equal the events
\* published into the channel since it subscribed, Terminate excluded.
C7_LagCountsMissed ==
    \A s \in Sessions :
        (/\ user[s].life = "open"
         /\ user[s].channel.next = Len(tx[user[s].channel.node]))
        => Shown(conn[s], ghost[s].mark) = Published(s)

\* C8: across a channel switch no event is rendered twice, and everything
\* rendered since the last switch comes from the channel switched to and
\* was published after the switch.
C8_SwitchAtomic ==
    \A s \in Sessions :
        /\ \A i, j \in Events(s) :
                i < j => ~(/\ conn[s][i].node = conn[s][j].node
                           /\ conn[s][i].pos = conn[s][j].pos)
        /\ \A i \in Events(s) :
                i > ghost[s].mark
                    => /\ conn[s][i].node = user[s].channel.node
                       /\ conn[s][i].pos > ghost[s].start

\* a session rendered events before a switch and events of the new
\* Subscription after it, while the bus of "/" holds an event it did not
\* render
C8_Witness ==
    \E s \in Sessions :
        /\ ghost[s].subs >= 2
        /\ ghost[s].mark >= 1
        /\ \E i \in Events(s) : i > ghost[s].mark
        /\ \E p \in 1..Len(tx[root_channel]) :
                \A i \in Events(s) :
                    ~(conn[s][i].node = root_channel /\ conn[s][i].pos = p)

\* C9: the Terminate a closing session sends stops only its own delivery
\* loop: a delivery task that has left its loop belongs to a session that
\* closed.
C9_TerminateStopsOnlyOwnLoop ==
    \A s \in Sessions :
        task[s].pc = "done" => user[s].life \in {"closed", "gone"}

\* C10: a closing session publishes Leave(identity) and then Terminate
\* into its current channel.
C10_LeaveThenTerminate ==
    [][\A s \in Sessions :
        (user[s].life = "open" /\ user'[s].life = "closed")
        => tx'[user[s].channel.node]
                = tx[user[s].channel.node] \o <<Leave(s), Terminate>>]_vars

\* every segment of the path names a child of the node reached by the
\* segments before it
RECURSIVE Resolves(_, _)
Resolves(n, segs) ==
    \/ segs = <<>>
    \/ /\ Head(segs) \in DOMAIN channels[n].children
       /\ Resolves(channels[n].children[Head(segs)], Tail(segs))

\* the step changes nothing but what the session shows and edits
OnlyShown(s) ==
    /\ channels' = channels
    /\ users' = users
    /\ tx' = tx
    /\ ~pending'[s].on
    /\ user'[s].channel = user[s].channel
    /\ user'[s].path = user[s].path

\* C11: ch with a path of which some segment names no child, and mkch and
\* rmch with such a parent path, fail with InvalidPath and change neither
\* the tree nor the session's Subscription or path.
C11_MissingSegmentIsInvalidPath ==
    [][\A s \in Sessions :
        (data(s, K_enter) /\ user[s].state.kind = "Normal")
        => /\ \A arg \in CommandArg(user[s].buffer, {S_ch, S_channel}) :
                ~Resolves(root_channel, join(user[s].path, arg))
                => (user'[s].state = Info("InvalidPath", <<>>) /\ OnlyShown(s))
           /\ \A arg \in CommandArg(user[s].buffer,
                            {S_mkch, S_rmch, S_remove_channel}) :
                (/\ join(user[s].path, arg) # <<>>
                 /\ ~Resolves(root_channel, Front(join(user[s].path, arg))))
                => (user'[s].state = Info("InvalidPath", <<>>) /\ OnlyShown(s))
       ]_vars

\* C12: mkch fails with AlreadyExists, the tree untouched, if the parent
\* the path denotes has a child of that name; otherwise it inserts exactly
\* one new child under that parent, and the path then resolves to the new
\* node.  (A path that denotes no parent is InvalidPath, as in C11.)
C12_MkchInsertsUnderParent ==
    [][\A s \in Sessions : \A arg \in CommandArg(user[s].buffer, {S_mkch}) :
        LET p == join(user[s].path, arg)
        IN  (/\ data(s, K_enter)
             /\ user[s].state.kind = "Normal"
             /\ parent(p) # {}
             /\ file_name(p) # {})
            => \/ /\ ~Resolves(root_channel, Front(p))
                  /\ user'[s].state = Info("InvalidPath", <<>>)
                  /\ channels' = channels
               \/ /\ Resolves(root_channel, p)
                  /\ user'[s].state = Info("AlreadyExists", <<>>)
                  /\ channels' = channels
               \/ /\ Resolves(root_channel, Front(p))
                  /\ ~Resolves(root_channel, p)
                  /\ alloc' = alloc + 1
                  /\ Resolves(root_channel, p)'
                  /\ walk(root_channel, p)' = alloc
                  /\ \A n \in Nodes \ {alloc, walk(root_channel, Front(p))} :
                        channels'[n] = channels[n]
                  /\ channels'[walk(root_channel, Front(p))] =
                        [channels[walk(root_channel, Front(p))] EXCEPT
                            !.children = (Last(p) :> alloc) @@ @]
       ]_vars

\* C13: the edit buffer has a maximum length, which no reachable state
\* exceeds: an insertion that would pass it is rejected.  The only length
\* the code gives the buffer is the BUFFER_HINT it is created with.
C13_BufferHasMaximum ==
    \A s \in Sessions : Len(user[s].buffer) <= BUFFER_HINT

\* the words of a line: what lies between its runs of spaces
Words(line) == SelectSeq(split(line, 32), LAMBDA w : w # <<>>)

\* C14: reply|r <name> <message...> with the name in the account registry
\* publishes Reply(sender, name, message) where the message has every run
\* of spaces collapsed to one space.
C14_ReplyCollapsesSpaces ==
    [][\A s \in Sessions : \A line \in CommandArg(user[s].buffer, {S_reply, S_r}) :
        (/\ data(s, K_enter)
         /\ user[s].state.kind = "Normal"
         /\ Len(Words(line)) >= 2
         /\ Words(line)[1] \in DOMAIN users)
        => tx' = [tx EXCEPT ![user[s].channel.node] = Append(@,
                    Reply(s, Words(line)[1], join_sp(Tail(Words(line)))))]
       ]_vars

\* C15: the input that dismisses an Info overlay is then processed as in
\* Normal state: a chunk of text is inserted at the cursor, Ctrl-C closes
\* the session; in either case the state is Normal afterwards.
C15_DismissingKeyIsProcessed ==
    [][\A s \in Sessions : \A d \in CmdKeys \cup {K_ctrl_c} :
        (data(s, d) /\ user[s].state.kind = "Info")
        => /\ user'[s].state = Normal
           /\ is_text(d) =>
                /\ user'[s].buffer = SubSeq(user[s].buffer, 1, user[s].cursor) \o d
                        \o SubSeq(user[s].buffer, user[s].cursor + 1,
                                  Len(user[s].buffer))
                /\ user'[s].cursor = user[s].cursor + Len(d)
           /\ d = K_ctrl_c => user'[s].life = "closed"
       ]_vars

\* C16: a command that ends in a CommandError leaves the tree, the perms,
\* the account registry and the session's Subscription and path as they
\* were, and publishes nothing.
C16_ErrorsChangeNothing ==
    [][\A s \in Sessions :
        (/\ data(s, K_enter)
         /\ user[s].state.kind = "Normal"
         /\ user'[s].state.kind = "Info"
         /\ user'[s].state.tag \in CommandError)
        => (OnlyShown(s) /\ alloc' = alloc)]_vars

\* alice is shown AlreadyExists after she has added the account c and
\* changed her path
C16_Witness ==
    /\ user[alice].state = Info("AlreadyExists", <<>>)
    /\ S_c \in DOMAIN users
    /\ user[alice].path # <<>>

\* C17: an identity whose global level (the OR of its role grants) contains
\* MANAGE, be it MANAGE alone, may remove any channel whatever the channel's
\* perms hold: its rmch of an existing channel passes the permission scan.
C17_GlobalAdminOverride ==
    [][\A s \in Sessions :
        \A arg \in CommandArg(user[s].buffer, {S_rmch, S_remove_channel}) :
            LET p   == join(user[s].path, arg)
                par == walk(root_channel, Front(p))
            IN  (/\ data(s, K_enter)
                 /\ user[s].state.kind = "Normal"
                 /\ p # <<>>
                 /\ Last(p) \in DOMAIN channels[par].children
                 /\ Contains(get_global_perms(users[s]), MANAGE))
                => (/\ user'[s].state.kind = "Normal"
                    /\ pending'[s] = [on |-> TRUE, op |-> "rmch", parent |-> par,
                                      name |-> Last(p)])
       ]_vars

\* C18: useradd and passwd-reset by an identity whose global level does
\* not contain MANAGE fail with Forbidden, the account registry unchanged;
\* passwd-reset of a name that is not in the registry fails with NotFound.
C18_AccountCommandsNeedManage ==
    [][\A s \in Sessions :
        (data(s, K_enter) /\ user[s].state.kind = "Normal")
        => /\ \A n \in CommandArg(user[s].buffer, {S_useradd, S_passwd_reset}) :
                (/\ \A i \in 1..Len(n) : n[i] # 32
                 /\ ~Contains(get_global_perms(users[s]), MANAGE))
                => (/\ user'[s].state = Info("Forbidden", <<>>)
                    /\ users' = users)
           /\ \A n \in CommandArg(user[s].buffer, {S_passwd_reset}) :
                (/\ \A i \in 1..Len(n) : n[i] # 32
                 /\ Contains(get_global_perms(users[s]), MANAGE)
                 /\ n \notin DOMAIN users)
                => (/\ user'[s].state = Info("NotFound", <<>>)
                    /\ users' = users)
       ]_vars

\* alice, whose global level is READ|WRITE, is shown Forbidden, which in
\* the Cmd lines only useradd and passwd-reset answer
C18_Witness ==
    /\ ~Contains(get_global_perms(users[alice]), MANAGE)
    /\ get_global_perms(users[alice]) # NONE
    /\ user[alice].state = Info("Forbidden", <<>>)
    /\ DOMAIN users = Sessions


\* C19: removing a channel does not disconnect its subscribers.  A node
\* that has left the tree keeps its bus while a session is subscribed to it:
\* a Msg entered there is appended to that bus without a panic and is
\* pending for every subscriber, no receiver ever reads Closed from it, and
\* no delivery task reaches the unreachable arm.
C19_RemovedChannelKeepsBus ==
    [][/\ \A s \in Sessions :
            (/\ data(s, K_enter)
             /\ user[s].channel.node \notin Tree
             /\ user[s].state.kind = "Normal"
             /\ user[s].buffer # <<>>
             /\ ~IsCommandLine(user[s].buffer))
            => (/\ user'[s].life = "open"
                /\ tx' = [tx EXCEPT ![user[s].channel.node] =
                            Append(@, Msg(s, user[s].buffer))]
                /\ \A t \in receivers(user[s].channel.node) :
                        user'[t].channel.next < Len(tx'[user[s].channel.node]))
       /\ \A s \in Sessions :
            (subscribed(s, user[s].channel.node) /\ user[s].channel.node \notin Tree)
            => try_recv(user[s].channel).kind # "Closed"
       /\ \A s \in Sessions : task'[s].pc # "unreachable"]_vars

\* "/s" has been removed while alice and bob were subscribed to it, and bob
\* has been shown a Msg that alice published on its bus after the removal
C19_Witness ==
    /\ 1 \notin Tree
    /\ user[alice].life = "open" /\ user[alice].channel.node = 1
    /\ user[bob].life = "open" /\ user[bob].channel.node = 1
    /\ \E i \in Events(bob) :
            /\ conn[bob][i].node = 1
            /\ conn[bob][i].pos > ghost[alice].cut
            /\ tx[1][conn[bob][i].pos] = Msg(alice, K_hello)


\* C20: under weak fairness of the delivery tasks, every event published
\* on a bus while a session with a running delivery task is subscribed to
\* it is eventually rendered to that session or covered by a lag notice
\* shown to it (the session's receiver gets past the event), unless the
\* session leaves; no further publish is needed for that.
C20_PublishedIsEventuallyShown ==
    \A s \in Sessions : \A i \in 1..(WakeMsgs + 2) :
        (/\ user[s].life = "open"
         /\ task[s].pc \in {"start", "loop", "parked", "waiting"}
         /\ ghost[s].start < i
         /\ i <= Len(tx[user[s].channel.node]))
        ~> (user[s].life # "open" \/ user[s].channel.next >= i)


\* C21: the delivery task follows the session's Subscription.  Once a
\* session has switched to "/s", has been shown everything on that bus and
\* its task waits for the wake signal, every event published on the bus of
\* "/s" afterwards is eventually rendered to it or covered by a lag notice,
\* unless the session leaves; nothing need be published in the channel it
\* came from.
C21_TaskFollowsSubscription ==
    \A s \in Sessions : \A i \in 1..(FollowMsgs + 2) :
        []((/\ user[s].life = "open"
            /\ user[s].channel.node = 1
            /\ task[s].pc = "waiting"
            /\ user[s].channel.next = Len(tx[1])
            /\ Len(tx[1]) < i)
           => []((Len(tx[1]) >= i)
                 => <>(user[s].life # "open" \/ user[s].channel.node # 1
                       \/ user[s].channel.next >= i)))


\* C22: a closed session's delivery task exits on the Terminate the session
\* published.  Whenever the session is closed and its task is running (not
\* suspended on the wake signal), the task eventually reads Terminate and
\* ends, whatever other sessions publish on the bus meanwhile.
C22_TerminateEndsTask ==
    \A s \in Sessions :
        (user[s].life = "closed" /\ task[s].pc = "loop") ~> (task[s].pc = "done")


\* the position of the write w among the writes out, 0 if it is not there
At(out, w) ==
    IF \E k \in 1..Len(out) : out[k] = w
    THEN CHOOSE k \in 1..Len(out) : out[k] = w ELSE 0

C24_RmchOfAbsentIsNotFound ==
    [][\A s \in Sessions :
        /\ \A arg \in CommandArg(user[s].buffer, {S_rmch, S_remove_channel}) :
            LET p   == join(user[s].path, arg)
                par == walk(root_channel, Front(p))
            IN  (/\ data(s, K_enter)
                 /\ user[s].state.kind = "Normal"
                 /\ p # <<>>
                 /\ Last(p) \notin DOMAIN channels[par].children)
                => (/\ user'[s].state = Info("NotFound", <<>>)
                    /\ channels' = channels)
        /\ rmch_remove(s) =>
                (/\ user'[s].life = user[s].life
                 /\ pending[s].name \notin DOMAIN channels'[pending[s].parent].children)
       ]_vars

\* C25: useradd never replaces an account: the write of a useradd leaves
\* every account that is in the registry as it was, so that the password
\* shown to the admin who added an account goes on authenticating it,
\* however the useradd commands of two admins interleave.
C25_UseraddKeepsAccounts ==
    [][\A s \in Sessions :
        /\ \A n \in CommandArg(user[s].buffer, {S_useradd}) :
                (/\ data(s, K_enter)
                 /\ user[s].state.kind = "Normal"
                 /\ n \in DOMAIN users)
                => (user'[s].state.kind = "Info" /\ users' = users)
        /\ useradd_insert(s) =>
                \A n \in DOMAIN users : users'[n] = users[n]
       ]_vars


\* C26: the cursor of a session lies within its buffer, 0 <= cursor <=
\* length, whatever is typed and delivered; a left arrow at cursor 0, a
\* right arrow at the end and a backspace at cursor 0 change nothing, and
\* a backspace elsewhere removes the byte before the cursor and moves the
\* cursor back by one.
C26_CursorWithinBuffer ==
    [][\A s \in Sessions :
        /\ user[s].cursor >= 0 /\ user[s].cursor <= Len(user[s].buffer)
        /\ user'[s].cursor >= 0 /\ user'[s].cursor <= Len(user'[s].buffer)
        /\ user[s].state.kind = "Normal" =>
            /\ (data(s, K_left) /\ user[s].cursor = 0) => UNCHANGED vars
            /\ (data(s, K_right) /\ user[s].cursor = Len(user[s].buffer))
                    => UNCHANGED vars
            /\ (data(s, K_backspace) /\ user[s].cursor = 0) => UNCHANGED vars
            /\ (data(s, K_backspace) /\ user[s].cursor > 0) =>
                    /\ user'[s].cursor = user[s].cursor - 1
                    /\ user'[s].buffer =
                        [i \in 1..(Len(user[s].buffer) - 1) |->
                            IF i < user[s].cursor THEN user[s].buffer[i]
                            ELSE user[s].buffer[i + 1]]
       ]_vars

\* alice's cursor stands before the second byte of U+00E9, the first
\* byte having been removed by a backspace after a left arrow
C26_Witness ==
    /\ user[alice].life = "open"
    /\ user[alice].buffer = <<169>>
    /\ user[alice].cursor = 0

\* the bytes of buf from its first to its last byte that is not white
\* space, empty when there is none
Trimmed(buf) ==
    LET I == {i \in 1..Len(buf) : ~is_whitespace(buf[i])}
    IN  IF I = {} THEN <<>>
        ELSE SubSeq(buf, CHOOSE i \in I : \A j \in I : i <= j,
                         CHOOSE i \in I : \A j \in I : i >= j)

\* C27: trim yields, for the buffer of every session, the bytes from the
\* first to the last byte that is not white space, and the empty sequence
\* for a buffer that is empty or white space only; so Enter on a non-empty
\* buffer of white space publishes it as a Msg.
C27_TrimStripsWhitespace ==
    [][\A s \in Sessions :
        /\ trim(user[s].buffer) =
                {[kind |-> "slice", val |-> Trimmed(user[s].buffer), colon |-> FALSE]}
        /\ (/\ data(s, K_enter)
            /\ user[s].state.kind = "Normal"
            /\ user[s].buffer # <<>>
            /\ Trimmed(user[s].buffer) = <<>>
            /\ quota[s] > 0)
           => tx' = [tx EXCEPT ![user[s].channel.node] =
                        Append(@, Msg(s, user[s].buffer))]
       ]_vars

\* C28: Enter on a non-empty buffer that is no command does not abort the
\* handler, whatever bytes the edits have left in the buffer: the session
\* stays open, and either a Msg is published or an error is shown.
C28_SubmitNeverAborts ==
    [][\A s \in Sessions :
        (/\ data(s, K_enter)
         /\ user[s].state.kind = "Normal"
         /\ Trimmed(user[s].buffer) # <<>>
         /\ Trimmed(user[s].buffer)[1] # 58)
        => (/\ user'[s].life = "open"
            /\ \/ tx' = [tx EXCEPT ![user[s].channel.node] =
                            Append(@, Msg(s, user[s].buffer))]
               \/ user'[s].state.kind = "Info")
       ]_vars


\* C29: the delivery task of a session finds the session when it starts:
\* its first step takes the Notify of the session's channel and enters the
\* loop, so the task of an open session is never dead before the session
\* is closed.
C29_TaskFindsSession ==
    [][\A s \in Sessions :
        /\ event_loop_start(s) => task'[s].pc = "loop"
        /\ user'[s].life = "open" => task'[s].pc # "panicked"
       ]_vars


\* C30: while no channel is removed, the path of an open session denotes
\* the channel it is subscribed to: every segment of the path names a
\* child of the node before it, and the node the path leads to is the node
\* of the session's Subscription.
C30_PathDenotesSubscription ==
    \A s \in Sessions :
        user[s].life = "open"
        => (/\ Resolves(root_channel, user[s].path)
            /\ walk(root_channel, user[s].path) = user[s].channel.node)

====
